---- MODULE Spec2Model ----
(***************************************************************************)
(* A model of corvus_js's public_api.js: the value codec (js2corvus,       *)
(* corvus2js, mapValues), the result unwrapper (unwrap) and the session    *)
(* facade returned by create().                                            *)
(*                                                                         *)
(* JavaScript values are modelled uniformly as records                     *)
(*   [kind, num, str, bool, props, proto]                                  *)
(* kind is the value's type ("undefined", "number", "string", "boolean",   *)
(* "date", "array", "object", and "TypeError" for an abrupt completion);   *)
(* props is the ordered list of own enumerable properties, in for-in       *)
(* order; proto is <<>> for the default prototype and <<p>> when the       *)
(* prototype has been replaced by the object p.                            *)
(***************************************************************************)
EXTENDS Integers, Sequences, FiniteSets, TLC

(* ----------------------------- bounds --------------------------------- *)

\* longest sequence / largest mapping enumerated over atoms
MaxLen == 2
\* deepest nesting of singleton containers enumerated
MaxDepth == 2
\* number of codec functions applied in a row to one input
MaxSteps == 2
\* number of sessions (calls of create())
MaxSessions == 2

(* --------------------------- JS values -------------------------------- *)

Undef == [kind |-> "undefined", num |-> 0, str |-> "", bool |-> FALSE,
          props |-> <<>>, proto |-> <<>>]

Num(n) == [Undef EXCEPT !.kind = "number", !.num = n]

Str(s) == [Undef EXCEPT !.kind = "string", !.str = s]

Bool(b) == [Undef EXCEPT !.kind = "boolean", !.bool = b]

\* a Date object holding the epoch-millisecond instant ms
DateV(ms) == [Undef EXCEPT !.kind = "date", !.num = ms]

\* the abrupt completion of reading a property of undefined
TypeErr == [Undef EXCEPT !.kind = "TypeError",
                         !.str = "Cannot read property 'Prim' of undefined"]

\* the abrupt completion of calling map on a value that is no array
NotAFunction == [Undef EXCEPT !.kind = "TypeError",
                              !.str = "val.List.map is not a function"]

P(k, v) == [key |-> k, val |-> v]

\* an object literal with the given own properties
Obj(props) == [Undef EXCEPT !.kind = "object", !.props = props]

IndexKey(i) ==
  CASE i = 0 -> "0" [] i = 1 -> "1" [] i = 2 -> "2" [] i = 3 -> "3"
    [] i = 4 -> "4" [] i = 5 -> "5" [] i = 6 -> "6" [] i = 7 -> "7"
    [] i = 8 -> "8" [] OTHER -> "9"

IsIndexKey(k) == \E i \in 0..9 : IndexKey(i) = k

IndexOf(k) == CHOOSE i \in 0..9 : IndexKey(i) = k

\* an array: its own enumerable properties are its indices
Arr(items) ==
  [Undef EXCEPT !.kind = "array",
                !.props = [i \in 1..Len(items) |-> P(IndexKey(i - 1), items[i])]]

Items(a) == [i \in 1..Len(a.props) |-> a.props[i].val]

\* typeof v === 'object' for the kinds modelled, and the values a
\* __proto__ assignment accepts as a prototype
IsObject(v) == v.kind \in {"object", "array", "date"}

\* ToBoolean
Truthy(v) ==
  CASE v.kind = "undefined" -> FALSE
    [] v.kind = "number" -> v.num # 0
    [] v.kind = "string" -> v.str # ""
    [] v.kind = "boolean" -> v.bool
    [] OTHER -> TRUE

\* the own enumerable keys of o, in for-in order.  A string's are its
\* indices; every non-empty string the codec is applied to in this model is
\* one character long.
OwnKeys(o) ==
  IF o.kind = "string" THEN (IF o.str = "" THEN <<>> ELSE <<"0">>)
  ELSE [i \in 1..Len(o.props) |-> o.props[i].key]

HasOwn(o, k) == \E i \in 1..Len(OwnKeys(o)) : OwnKeys(o)[i] = k

\* o[k] for an own key k; the one character of a string is the string
OwnGet(o, k) ==
  IF o.kind = "string" THEN o
  ELSE o.props[CHOOSE i \in 1..Len(o.props) : o.props[i].key = k].val

\* whether k is an own property of o or of an object on its replaced
\* prototype chain
RECURSIVE InChain(_, _)
InChain(o, k) == HasOwn(o, k) \/ (o.proto # <<>> /\ InChain(o.proto[1], k))

RECURSIVE ChainGet(_, _)
ChainGet(o, k) == IF HasOwn(o, k) THEN OwnGet(o, k) ELSE ChainGet(o.proto[1], k)

\* the default prototype, which has no enumerable property
ObjectPrototype == [Undef EXCEPT !.kind = "object", !.str = "Object.prototype"]

\* o[k]: the own property, else the prototype chain's; a "__proto__" found
\* nowhere is answered by Object.prototype's getter with o's prototype;
\* any other missing property is undefined
Get(o, k) ==
  IF InChain(o, k) THEN ChainGet(o, k)
  ELSE IF k = "__proto__" /\ IsObject(o)
    THEN IF o.proto # <<>> THEN o.proto[1] ELSE ObjectPrototype
  ELSE Undef

\* the keys `for (k in o)` visits: own enumerable keys first, then the
\* prototype chain's enumerable keys that are not shadowed
RECURSIVE ForInKeys(_)
ForInKeys(o) ==
  OwnKeys(o) \o
    (IF o.proto = <<>> THEN <<>>
     ELSE SelectSeq(ForInKeys(o.proto[1]), LAMBDA k : ~HasOwn(o, k)))

InsertAt(s, i, e) == SubSeq(s, 1, i - 1) \o <<e>> \o SubSeq(s, i, Len(s))

\* out[k] = v on an object created by `{}`.  Assigning to "__proto__"
\* runs Object.prototype's setter: it replaces the prototype when v is
\* an object and does nothing otherwise; it never creates an own
\* property.  Integer-like keys are kept first, in ascending order.
SetProp(out, k, v) ==
  IF k = "__proto__"
    THEN IF IsObject(v) THEN [out EXCEPT !.proto = <<v>>] ELSE out
  ELSE IF HasOwn(out, k)
    THEN [out EXCEPT !.props =
            [i \in 1..Len(out.props) |->
               IF out.props[i].key = k THEN P(k, v) ELSE out.props[i]]]
  ELSE IF IsIndexKey(k)
    THEN LET before == {j \in 1..Len(out.props) :
                          /\ IsIndexKey(out.props[j].key)
                          /\ IndexOf(out.props[j].key) < IndexOf(k)}
         IN [out EXCEPT !.props = InsertAt(out.props, Cardinality(before) + 1, P(k, v))]
  ELSE [out EXCEPT !.props = Append(out.props, P(k, v))]

RECURSIVE js2corvus(_)
RECURSIVE corvus2js(_)

\* fn(v) for the two functions the source passes to mapValues and map
Apply(fn, v) == IF fn = "js2corvus" THEN js2corvus(v) ELSE corvus2js(v)

\* the loop of mapValues over the keys still to visit
RECURSIVE mapValuesLoop(_, _, _, _)
mapValuesLoop(obj, fn, keys, out) ==
  IF keys = <<>> THEN out
  ELSE LET r == Apply(fn, Get(obj, Head(keys)))
       IN IF r.kind = "TypeError" THEN r
          ELSE mapValuesLoop(obj, fn, Tail(keys), SetProp(out, Head(keys), r))

mapValues(obj, fn) == mapValuesLoop(obj, fn, ForInKeys(obj), Obj(<<>>))

\* Array.prototype.map
RECURSIVE arrayMapLoop(_, _, _)
arrayMapLoop(items, fn, out) ==
  IF items = <<>> THEN Arr(out)
  ELSE LET r == Apply(fn, Head(items))
       IN IF r.kind = "TypeError" THEN r
          ELSE arrayMapLoop(Tail(items), fn, Append(out, r))

arrayMap(a, fn) ==
  IF a.kind = "array" THEN arrayMapLoop(Items(a), fn, <<>>) ELSE NotAFunction

js2corvus(val) ==
  IF val.kind = "number" THEN Obj(<<P("Prim", Obj(<<P("Number", val)>>))>>)
  ELSE IF val.kind = "string" THEN Obj(<<P("Prim", Obj(<<P("String", val)>>))>>)
  ELSE IF val.kind = "boolean" THEN Obj(<<P("Prim", Obj(<<P("Boolean", val)>>))>>)
  ELSE IF val.kind = "date" THEN Obj(<<P("Prim", Obj(<<P("Time", Num(val.num))>>))>>)
  ELSE IF val.kind = "array" THEN Obj(<<P("List", arrayMap(val, "js2corvus"))>>)
  ELSE IF val.kind = "object" THEN Obj(<<P("Record", mapValues(val, "js2corvus"))>>)
  ELSE Undef

\* the first own property visited by `for (k in prim)`, if any; a number,
\* a boolean, a Date and {} have none
FirstOwn(prim) ==
  IF OwnKeys(prim) # <<>> THEN <<OwnGet(prim, OwnKeys(prim)[1])>> ELSE <<>>

\* corvus2js without its last line: no fallback for an unknown tag
corvus2jsNoFallback(val) ==
  IF val.kind \in {"undefined", "TypeError"} THEN TypeErr
  ELSE IF Truthy(Get(val, "Prim")) /\ FirstOwn(Get(val, "Prim")) # <<>>
    THEN FirstOwn(Get(val, "Prim"))[1]
  ELSE IF Truthy(Get(val, "Record")) THEN mapValues(Get(val, "Record"), "corvus2js")
  ELSE IF Truthy(Get(val, "List")) THEN arrayMap(Get(val, "List"), "corvus2js")
  ELSE Undef

corvus2js(val) ==
  IF val.kind \in {"undefined", "TypeError"} THEN TypeErr
  ELSE IF Truthy(Get(val, "Prim")) /\ FirstOwn(Get(val, "Prim")) # <<>>
    THEN FirstOwn(Get(val, "Prim"))[1]
  ELSE IF Truthy(Get(val, "Record")) THEN mapValues(Get(val, "Record"), "corvus2js")
  ELSE IF Truthy(Get(val, "List")) THEN arrayMap(Get(val, "List"), "corvus2js")
  ELSE val

(* ------------------------- completions -------------------------------- *)

Return(v) == [kind |-> "return", value |-> v, error |-> "", message |-> ""]

Throw(e, m) == [kind |-> "throw", value |-> Undef, error |-> e, message |-> m]

\* a value computed by the codec, as the completion of the calling function
Complete(v) == IF v.kind = "TypeError" THEN Throw("TypeError", v.str) ELSE Return(v)

unwrap(result) ==
  IF Truthy(Get(result, "Err")) THEN Throw("Error", Get(result, "Err").str)
  ELSE Return(Get(result, "Ok"))

(* ------------------------ enumerated inputs --------------------------- *)

\* property names: ordinary ones, the wire tags, and "__proto__"
Keys == {"a", "b", "Prim", "List", "Record", "__proto__"}

HostAtoms == {Num(0), Num(1), Str(""), Str("s"), Bool(FALSE), Bool(TRUE), DateV(5)}

\* all sequences of length at most n over S
SeqsUpTo(S, n) == UNION {[1..m -> S] : m \in 0..n}

\* all sequences of distinct keys of length at most n
KeySeqsUpTo(n) ==
  {ks \in SeqsUpTo(Keys, n) : \A i, j \in 1..Len(ks) : i # j => ks[i] # ks[j]}

\* the values placed in mappings of several keys
MappedAtoms == {Num(0), Str("s"), DateV(5)}

\* all mappings with at most n keys, in every key order, over S
ObjectsOver(S, n) ==
  {Obj([i \in 1..Len(ks) |-> P(ks[i], vs[i])]) :
     <<ks, vs>> \in {pr \in KeySeqsUpTo(n) \X SeqsUpTo(S, n) : Len(pr[1]) = Len(pr[2])}}

ArraysOver(S, n) == {Arr(items) : items \in SeqsUpTo(S, n)}

\* singleton containers nested d deep over S
RECURSIVE Nested(_, _)
Nested(S, d) ==
  IF d = 0 THEN S
  ELSE LET T == Nested(S, d - 1)
       IN T \cup {Arr(<<x>>) : x \in T} \cup {Obj(<<P(k, x)>>) : k \in Keys, x \in T}

\* the example of the specification
ExampleHost == Obj(<<P("a", Num(1)), P("b", Arr(<<Bool(TRUE), Str("s")>>))>>)

HostValues ==
  ArraysOver(HostAtoms, MaxLen) \cup ObjectsOver(MappedAtoms, MaxLen)
    \cup Nested(HostAtoms \cup {Arr(<<>>), Obj(<<>>)}, MaxDepth) \cup {ExampleHost}

\* the wire variants, as js2corvus lays them out
WPrim(tag, v) == Obj(<<P("Prim", Obj(<<P(tag, v)>>))>>)

WList(items) == Obj(<<P("List", Arr(items))>>)

WRecord(props) == Obj(<<P("Record", Obj(props))>>)

WireAtoms ==
  {WPrim("Number", Num(0)), WPrim("Number", Num(1)), WPrim("String", Str("")),
   WPrim("String", Str("s")), WPrim("Boolean", Bool(FALSE)),
   WPrim("Boolean", Bool(TRUE)), WPrim("Time", Num(5))}

\* values carrying a tag the decoder does not know
UnknownTagValues == {Obj(<<P("Weird", Num(5))>>), Obj(<<P("Weird", Num(0)), P("Other", Str("s"))>>)}

WireLeaves == WireAtoms \cup UnknownTagValues

\* the values placed in Records of several keys
MappedWires == {WPrim("Number", Num(0)), WPrim("Time", Num(5)), Obj(<<P("Weird", Num(5))>>)}

WireListsOver(S, n) == {WList(items) : items \in SeqsUpTo(S, n)}

WireRecordsOver(S, n) ==
  {WRecord([i \in 1..Len(ks) |-> P(ks[i], vs[i])]) :
     <<ks, vs>> \in {pr \in KeySeqsUpTo(n) \X SeqsUpTo(S, n) : Len(pr[1]) = Len(pr[2])}}

RECURSIVE WireNested(_, _)
WireNested(S, d) ==
  IF d = 0 THEN S
  ELSE LET T == WireNested(S, d - 1)
       IN T \cup {WList(<<x>>) : x \in T} \cup {WRecord(<<P(k, x)>>) : k \in Keys, x \in T}

ExampleWire ==
  WRecord(<<P("a", WPrim("Number", Num(1))),
            P("b", WList(<<WPrim("Boolean", Bool(TRUE)), WPrim("String", Str("s"))>>))>>)

WireValues ==
  WireListsOver(WireLeaves, MaxLen) \cup WireRecordsOver(MappedWires, MaxLen)
    \cup WireNested(WireLeaves \cup {WList(<<>>), WRecord(<<>>)}, MaxDepth) \cup {ExampleWire}

\* engine answers: a success carrying a payload or a failure carrying a message
Ok(payload) == Obj(<<P("Ok", payload)>>)

Err(m) == Obj(<<P("Err", Str(m))>>)

Messages == {"boom", ""}

Outcomes ==
  {Ok(w) : w \in WireLeaves \cup {ExampleWire, WList(<<>>), WRecord(<<>>)}}
    \cup {Err(m) : m \in Messages}

(* ------------------------------ state --------------------------------- *)

VARIABLES
  codec,      \* a codec input, the functions applied to it so far, and the result
  load,       \* the state of the promise Rust.corvus_js
  sessions,   \* per call of create(): its progress, handle and failure
  nextHandle, \* the engine: the next handle its create() returns
  last        \* the facade operation performed last: its arguments, the engine
              \* calls it made, the engine's answer and its completion

vars == <<codec, load, sessions, nextHandle, last>>

sessionVars == <<load, sessions, nextHandle, last>>

CodecIdle == [origin |-> "none", orig |-> Undef, path |-> <<>>, cur |-> Return(Undef)]

CodecInput(o, v) == [origin |-> o, orig |-> v, path |-> <<>>, cur |-> Return(v)]

Sessions == 1..MaxSessions

NoOp == [op |-> "none", session |-> 0, text |-> "", input |-> Undef,
         calls |-> <<>>, answer |-> Undef, completion |-> Return(Undef)]

SessionInit ==
  /\ load = "pending"
  /\ sessions = [s \in Sessions |-> [state |-> "Uninitialized", handle |-> 0, error |-> ""]]
  /\ nextHandle = 1
  /\ last = NoOp

(* -------------------- the codec as pure functions --------------------- *)

CodecInit ==
  /\ codec \in {CodecInput("host", v) : v \in HostValues}
                 \cup {CodecInput("wire", w) : w \in WireValues}
                 \cup {CodecInput("outcome", o) : o \in Outcomes}
  /\ SessionInit

CanApply == codec.cur.kind = "return" /\ Len(codec.path) < MaxSteps

Js2corvusCall ==
  /\ CanApply
  /\ codec.origin \in {"host", "wire"}
  /\ codec' = [codec EXCEPT !.path = Append(@, "js2corvus"),
                            !.cur = Complete(js2corvus(codec.cur.value))]
  /\ UNCHANGED sessionVars

Corvus2jsCall ==
  /\ CanApply
  /\ codec.origin \in {"host", "wire"}
  /\ codec' = [codec EXCEPT !.path = Append(@, "corvus2js"),
                            !.cur = Complete(corvus2js(codec.cur.value))]
  /\ UNCHANGED sessionVars

UnwrapCall ==
  /\ codec.origin = "outcome"
  /\ codec.path = <<>>
  /\ codec' = [codec EXCEPT !.path = <<"unwrap">>, !.cur = unwrap(codec.orig)]
  /\ UNCHANGED sessionVars

CodecNext == Js2corvusCall \/ Corvus2jsCall \/ UnwrapCall

CodecSpec == CodecInit /\ [][CodecNext]_vars

(* ------------------------ the session facade -------------------------- *)

\* the reason the promise Rust.corvus_js rejects with
LoadFailure == "load failed"

\* source texts handed to eval and typeOf
Texts == {"1+1", "x"}

\* variable names handed to set
Names == {"x", "y"}

\* what the engine's evaluate answers
EvalAnswers == {Ok(WPrim("Number", Num(2))), Ok(ExampleWire), Err("boom"), Err("")}

\* what the engine's type_of answers: payloads shaped like wire values and
\* failures
TypeAnswers ==
  {Ok(WPrim("Number", Num(2))), Ok(WList(<<WPrim("String", Str("s"))>>)),
   Err("boom"), Err("")}

\* host values handed to set, each with the wire value it stands for
SetCases ==
  {<<ExampleHost, ExampleWire>>,
   <<Num(0), WPrim("Number", Num(0))>>,
   <<DateV(5), WPrim("Time", Num(5))>>,
   <<Obj(<<P("Prim", Str(""))>>), WRecord(<<P("Prim", WPrim("String", Str("")))>>)>>}

SetInputs == {c[1] : c \in SetCases}

\* what the engine's set returns: nothing, or a value shaped like a failure
SetterReturns == {Undef, Err("boom")}

\* what the engine's vars returns: mappings from names to wire values
EngineVarMaps ==
  {Obj(<<>>),
   Obj(<<P("x", WPrim("Number", Num(2)))>>),
   Obj(<<P("x", WPrim("Number", Num(2))), P("y", WList(<<>>))>>),
   Obj(<<P("y", ExampleWire), P("x", WPrim("String", Str("")))>>),
   Obj(<<P("__proto__", WPrim("Number", Num(2)))>>),
   Obj(<<P("x", WPrim("Number", Num(0))), P("__proto__", ExampleWire)>>)}

SetSession(s, st, h, e) ==
  [sessions EXCEPT ![s] = [state |-> st, handle |-> h, error |-> e]]

\* the engine module is loaded: Rust.corvus_js resolves
LoadResolves ==
  /\ load = "pending"
  /\ load' = "resolved"
  /\ UNCHANGED <<codec, sessions, nextHandle, last>>

\* the engine module fails to load: Rust.corvus_js rejects
LoadRejects ==
  /\ load = "pending"
  /\ load' = "rejected"
  /\ UNCHANGED <<codec, sessions, nextHandle, last>>

\* the engine's create(): a handle no earlier call returned
EngineCreate == nextHandle

\* a create() that runs the engine's create() at once, without waiting for
\* Rust.corvus_js
createEager(s) ==
  /\ sessions[s].state = "Uninitialized"
  /\ sessions' = SetSession(s, "Ready", EngineCreate, "")
  /\ nextHandle' = nextHandle + 1
  /\ UNCHANGED <<codec, load, last>>

\* create(): registers the callback on Rust.corvus_js and returns the promise
create(s) ==
  /\ sessions[s].state = "Uninitialized"
  /\ sessions' = SetSession(s, "Initializing", 0, "")
  /\ UNCHANGED <<codec, load, nextHandle, last>>

\* a callback that takes its handle from a module-level variable set by the
\* first session
createResolvedSharedHandle(s) ==
  /\ sessions[s].state = "Initializing"
  /\ load = "resolved"
  /\ sessions' = SetSession(s, "Ready", 1, "")
  /\ nextHandle' = IF nextHandle = 1 THEN 2 ELSE nextHandle
  /\ UNCHANGED <<codec, load, last>>

\* the callback of create(): runs once Rust.corvus_js has resolved, obtains
\* the handle and returns the facade
createResolved(s) ==
  /\ sessions[s].state = "Initializing"
  /\ load = "resolved"
  /\ sessions' = SetSession(s, "Ready", EngineCreate, "")
  /\ nextHandle' = nextHandle + 1
  /\ UNCHANGED <<codec, load, last>>

\* Rust.corvus_js rejected: the promise returned by create() rejects with
\* the same reason and the callback never runs
createRejected(s) ==
  /\ sessions[s].state = "Initializing"
  /\ load = "rejected"
  /\ sessions' = SetSession(s, "Failed", 0, LoadFailure)
  /\ UNCHANGED <<codec, load, nextHandle, last>>

\* the facade of s exists: the callback of create() has returned it
CanCall(s) == sessions[s].state = "Ready"

\* a call of an engine entry point with the handle the facade of s closes over
Call(fn, s, text, arg) ==
  [fn |-> fn, handle |-> sessions[s].handle, text |-> text, arg |-> arg]

Op(op, s, text, input, calls, answer, completion) ==
  [op |-> op, session |-> s, text |-> text, input |-> input, calls |-> calls,
   answer |-> answer, completion |-> completion]

\* corvus2js(unwrap(answer))
evalCompletion(answer) ==
  IF unwrap(answer).kind = "throw" THEN unwrap(answer)
  ELSE Complete(corvus2js(unwrap(answer).value))

eval(s) ==
  /\ CanCall(s)
  /\ \E text \in Texts, answer \in EvalAnswers :
       last' = Op("eval", s, text, Undef, <<Call("evaluate", s, text, Undef)>>,
                  answer, evalCompletion(answer))
  /\ UNCHANGED <<codec, load, sessions, nextHandle>>

typeOf(s) ==
  /\ CanCall(s)
  /\ \E text \in Texts, answer \in TypeAnswers :
       last' = Op("typeOf", s, text, Undef, <<Call("type_of", s, text, Undef)>>,
                  answer, unwrap(answer))
  /\ UNCHANGED <<codec, load, sessions, nextHandle>>

\* a set that unwraps what the engine's set returns
setUnwrapping(s) ==
  /\ CanCall(s)
  /\ \E name \in Names, val \in SetInputs, answer \in SetterReturns :
       last' = Op("set", s, name, val, <<Call("set", s, name, js2corvus(val))>>,
                  answer, unwrap(answer))
  /\ UNCHANGED <<codec, load, sessions, nextHandle>>

set(s) ==
  /\ CanCall(s)
  /\ \E name \in Names, val \in SetInputs, answer \in SetterReturns :
       last' = Op("set", s, name, val, <<Call("set", s, name, js2corvus(val))>>,
                  answer, Return(answer))
  /\ UNCHANGED <<codec, load, sessions, nextHandle>>

getVars(s) ==
  /\ CanCall(s)
  /\ \E answer \in EngineVarMaps :
       last' = Op("vars", s, "", Undef, <<Call("vars", s, "", Undef)>>,
                  answer, Complete(mapValues(answer, "corvus2js")))
  /\ UNCHANGED <<codec, load, sessions, nextHandle>>

Init == codec = CodecIdle /\ SessionInit

Next ==
  \/ LoadResolves
  \/ LoadRejects
  \/ \E s \in Sessions :
       \/ create(s)
       \/ createResolved(s)
       \/ createRejected(s)
       \/ eval(s)
       \/ typeOf(s)
       \/ set(s)
       \/ getVars(s)

Spec == Init /\ [][Next]_vars

(* ----------------------- claims about the codec ----------------------- *)

\* v with every time instant replaced by its epoch-millisecond number
RECURSIVE TimesAsNumbers(_)
TimesAsNumbers(v) ==
  IF v.kind = "date" THEN Num(v.num)
  ELSE [v EXCEPT !.props = [i \in 1..Len(v.props) |->
                              P(v.props[i].key, TimesAsNumbers(v.props[i].val))]]

\* whether some mapping inside v has a key named "__proto__"
RECURSIVE HasProtoKey(_)
HasProtoKey(v) ==
  \E i \in 1..Len(v.props) :
    v.props[i].key = "__proto__" \/ HasProtoKey(v.props[i].val)

RECURSIVE HasTime(_)
HasTime(v) ==
  \E i \in 1..Len(v.props) : v.props[i].key = "Time" \/ HasTime(v.props[i].val)

PlainObject(v) == v.kind = "object" /\ v.proto = <<>>

\* a Prim carrying exactly one of Number, String, Boolean or Time; a List
\* of wire values; a Record of wire values
RECURSIVE WellFormedWire(_)
WellFormedWire(w) ==
  /\ PlainObject(w)
  /\ Len(w.props) = 1
  /\ LET tag == w.props[1].key
         body == w.props[1].val
     IN CASE tag = "Prim" ->
               /\ PlainObject(body)
               /\ Len(body.props) = 1
               /\ <<body.props[1].key, body.props[1].val.kind>> \in
                    {<<"Number", "number">>, <<"String", "string">>,
                     <<"Boolean", "boolean">>, <<"Time", "number">>}
          [] tag = "List" ->
               /\ body.kind = "array"
               /\ \A i \in 1..Len(body.props) : WellFormedWire(body.props[i].val)
          [] tag = "Record" ->
               /\ PlainObject(body)
               /\ \A i \in 1..Len(body.props) : WellFormedWire(body.props[i].val)
          [] OTHER -> FALSE

\* a value whose tag is none of Prim, List, Record
IsUnknownTag(v) ==
  /\ PlainObject(v)
  /\ Len(v.props) > 0
  /\ \A i \in 1..Len(v.props) : v.props[i].key \notin {"Prim", "List", "Record"}

HostRoundTripDone ==
  codec.origin = "host" /\ codec.path = <<"js2corvus", "corvus2js">>

WireRoundTripDone ==
  /\ codec.origin = "wire"
  /\ WellFormedWire(codec.orig)
  /\ codec.path = <<"corvus2js", "js2corvus">>

\* C1: for every host value v, corvus2js(js2corvus(v)) is structurally
\* equal to v, sequence order and mapping keys preserved, except that a
\* time instant comes back as its epoch-millisecond number.
C1_HostRoundTrip ==
  HostRoundTripDone => codec.cur = Return(TimesAsNumbers(codec.orig))

\* The host round trip does hold for every value none of whose mappings
\* has a key named "__proto__".
HostRoundTripOrdinaryKeys ==
  (HostRoundTripDone /\ ~HasProtoKey(codec.orig))
    => codec.cur = Return(TimesAsNumbers(codec.orig))

\* C2: for every well-formed wire value w, js2corvus(corvus2js(w)) is
\* structurally equal to w.
C2_WireRoundTrip == WireRoundTripDone => codec.cur = Return(codec.orig)

\* The wire round trip does hold for every well-formed wire value that
\* carries no Time and has no Record key named "__proto__".
WireRoundTripNoTimeOrdinaryKeys ==
  (WireRoundTripDone /\ ~HasTime(codec.orig) /\ ~HasProtoKey(codec.orig))
    => codec.cur = Return(codec.orig)

UnwrapDone == codec.origin = "outcome" /\ codec.path = <<"unwrap">>

\* C3: for every failure Outcome {Err: m}, m a string of any length, zero
\* included, unwrap raises an error whose message is exactly m and never
\* returns normally.
C3_FailureUnwrapRaises ==
  (UnwrapDone /\ HasOwn(codec.orig, "Err"))
    => codec.cur = Throw("Error", OwnGet(codec.orig, "Err").str)

\* unwrap does raise the message of every failure whose message is not empty,
\* and returns the payload of every success unchanged.
UnwrapNonEmptyMessage ==
  UnwrapDone =>
    /\ (HasOwn(codec.orig, "Err") /\ OwnGet(codec.orig, "Err").str # "")
         => codec.cur = Throw("Error", OwnGet(codec.orig, "Err").str)
    /\ HasOwn(codec.orig, "Ok") => codec.cur = Return(OwnGet(codec.orig, "Ok"))

DecodeDone == codec.origin = "wire" /\ codec.path = <<"corvus2js">>

IsWList(w) == PlainObject(w) /\ OwnKeys(w) = <<"List">>

IsWRecord(w) == PlainObject(w) /\ OwnKeys(w) = <<"Record">>

Handle(s) == sessions[s].handle

\* the one engine call an operation of the facade makes
TheCall(fn, arg) ==
  <<[fn |-> fn, handle |-> Handle(last.session), text |-> last.text, arg |-> arg]>>

Failed(answer) == HasOwn(answer, "Err")

MessageOf(answer) == OwnGet(answer, "Err").str

\* C4: eval makes exactly one call of evaluate with the session's handle and
\* the text unchanged; on {Ok: w} it returns corvus2js(w), 2 for
\* {Ok: {Prim: {Number: 2}}}; on {Err: m} it raises an error with message m,
\* without decoding.
C4_Eval ==
  last.op = "eval" =>
    /\ last.calls = TheCall("evaluate", Undef)
    /\ HasOwn(last.answer, "Ok") =>
         last.completion = Complete(corvus2js(OwnGet(last.answer, "Ok")))
    /\ last.answer = Ok(WPrim("Number", Num(2))) => last.completion = Return(Num(2))
    /\ Failed(last.answer) => last.completion = Throw("Error", MessageOf(last.answer))

\* eval does behave so whenever the failure message is not empty.
EvalNonEmptyMessage ==
  (last.op = "eval" /\ ~(Failed(last.answer) /\ MessageOf(last.answer) = ""))
    => /\ last.calls = TheCall("evaluate", Undef)
       /\ last.answer = Ok(WPrim("Number", Num(2))) => last.completion = Return(Num(2))
       /\ last.answer = Ok(ExampleWire) => last.completion = Return(ExampleHost)
       /\ Failed(last.answer) => last.completion = Throw("Error", MessageOf(last.answer))

\* C5: typeOf returns the Ok payload of type_of as the engine reported it,
\* undecoded even when it is shaped like a wire value; on {Err: m} it raises
\* an error with message m.
C5_TypeOf ==
  last.op = "typeOf" =>
    /\ last.calls = TheCall("type_of", Undef)
    /\ HasOwn(last.answer, "Ok") => last.completion = Return(OwnGet(last.answer, "Ok"))
    /\ Failed(last.answer) => last.completion = Throw("Error", MessageOf(last.answer))

\* typeOf does behave so whenever the failure message is not empty.
TypeOfNonEmptyMessage ==
  (last.op = "typeOf" /\ ~(Failed(last.answer) /\ MessageOf(last.answer) = ""))
    => /\ last.calls = TheCall("type_of", Undef)
       /\ HasOwn(last.answer, "Ok") => last.completion = Return(OwnGet(last.answer, "Ok"))
       /\ Failed(last.answer) => last.completion = Throw("Error", MessageOf(last.answer))

ExpectedWire(v) == (CHOOSE c \in SetCases : c[1] = v)[2]

\* C6: set makes exactly one call of the engine's set, with the session's
\* handle, the name unchanged and the wire value of the host value (the
\* Record of the specification's example for {a: 1, b: [true, "s"]}); it
\* does not raise, whatever the engine's set returns.
C6_Set ==
  last.op = "set" =>
    /\ last.calls = TheCall("set", ExpectedWire(last.input))
    /\ last.completion.kind = "return"

C6_Witness ==
  /\ last.op = "set"
  /\ last.input = ExampleHost
  /\ last.answer = Err("boom")
  /\ last.calls[1].arg = ExampleWire
  /\ last.completion.kind = "return"

\* C7: vars returns a mapping with exactly the key set of the engine's
\* mapping, each value decoded by corvus2js: no key added, dropped or renamed.
C7_Vars ==
  last.op = "vars" =>
    /\ last.calls = TheCall("vars", Undef)
    /\ last.completion.kind = "return"
    /\ OwnKeys(last.completion.value) = OwnKeys(last.answer)
    /\ ForInKeys(last.completion.value) = OwnKeys(last.answer)
    /\ \A i \in 1..Len(last.answer.props) :
         Get(last.completion.value, last.answer.props[i].key)
           = corvus2js(last.answer.props[i].val)

\* vars does behave so for every engine mapping without a key named
\* "__proto__".
VarsOrdinaryKeys ==
  (last.op = "vars" /\ ~HasOwn(last.answer, "__proto__")) =>
    /\ last.calls = TheCall("vars", Undef)
    /\ last.completion.kind = "return"
    /\ ForInKeys(last.completion.value) = OwnKeys(last.answer)
    /\ last.answer = Obj(<<P("x", WPrim("Number", Num(2)))>>)
         => last.completion.value = Obj(<<P("x", Num(2))>>)
    /\ last.answer = Obj(<<P("y", ExampleWire), P("x", WPrim("String", Str("")))>>)
         => last.completion.value = Obj(<<P("y", ExampleHost), P("x", Str(""))>>)

HasHandle(s) == Handle(s) # 0

HandlesIndependent ==
  /\ \A s, t \in Sessions : (s # t /\ HasHandle(s) /\ HasHandle(t)) => Handle(s) # Handle(t)
  /\ Cardinality({s \in Sessions : HasHandle(s)}) = nextHandle - 1
  /\ last.op # "none" =>
       /\ HasHandle(last.session)
       /\ \A i \in 1..Len(last.calls) : last.calls[i].handle = Handle(last.session)

HandlesStable ==
  /\ \A s \in Sessions : HasHandle(s) => sessions'[s] = sessions[s]
  /\ \A s, t \in Sessions : (s # t /\ sessions'[s] # sessions[s]) => sessions'[t] = sessions[t]

\* C9: every create() obtains its own handle by one call of the engine's
\* create(), so no two sessions share a handle; every engine call made for a
\* session carries the handle that session obtained at creation; a
\* session's handle never changes and no step touches two sessions.
C9_HandleIndependence == []HandlesIndependent /\ [][HandlesStable]_vars

C9_Witness ==
  /\ Handle(1) = 2
  /\ Handle(2) = 1
  /\ last.op = "eval"
  /\ last.session = 1
  /\ last.calls[1].handle = 2

InitOrder ==
  /\ \A s \in Sessions :
       /\ sessions[s].state = "Ready" => (load = "resolved" /\ HasHandle(s))
       /\ sessions[s].state # "Ready" => ~HasHandle(s)
       /\ sessions[s].state = "Failed" <=> sessions[s].error = LoadFailure
       /\ sessions[s].state = "Failed" => load = "rejected"
  /\ (nextHandle > 1 \/ last.op # "none") => load = "resolved"
  /\ last.op # "none" => sessions[last.session].state = "Ready"

InitSteps ==
  /\ \A s \in Sessions :
       \/ sessions'[s] = sessions[s]
       \/ <<sessions[s].state, sessions'[s].state>> \in
            {<<"Uninitialized", "Initializing">>, <<"Initializing", "Ready">>,
             <<"Initializing", "Failed">>}
  /\ load # "pending" => load' = load

\* C10: a session goes Uninitialized -> Initializing -> Ready; the facade and
\* its operations exist only after the load has resolved and the handle has
\* been obtained; no engine entry point is called before the load resolves;
\* when the load fails create() fails with that failure, obtains no handle,
\* produces no facade and does not retry.
C10_InitializationOrdering == []InitOrder /\ [][InitSteps]_vars

C10_Witness ==
  /\ load = "resolved"
  /\ sessions[1].state = "Ready"
  /\ sessions[2].state = "Initializing"
  /\ last.op = "eval"
  /\ last.session = 1

====
